---- MODULE Spec2Model ----
(***************************************************************************)
(* Model of the bidirectional hopscotch hash map BiMap (src/src/lib.rs).   *)
(*                                                                         *)
(* The map is two tables of buckets of equal length, left_data and         *)
(* right_data, and two hashers.  A bucket holds an optional (key,          *)
(* cross-index) pair and a neighbourhood bit-set.  The public operations   *)
(* are new, with_capacity, capacity, insert, remove_left and remove_right  *)
(* and the two forms of iteration; the two removes share the private       *)
(* routine remove.                                                         *)
(*                                                                         *)
(* The modules bitfield, bucket and iterator are not part of lib.rs; the   *)
(* bit-set, the bucket and the pairing iterator are modelled from their    *)
(* description in the specification.                                       *)
(***************************************************************************)
EXTENDS Integers, FiniteSets, Sequences, TLC

VARIABLES left_data, right_data, left_hasher, right_hasher, call, ret

vars == <<left_data, right_data, left_hasher, right_hasher, call, ret>>

----------------------------------------------------------------------------
(* Bounds of the model.                                                    *)

\* the left keys are 1..MaxLeft, the right keys 1..MaxRight
MaxLeft == 2
MaxRight == 2
\* a hasher yields a digest in 0..MaxHash
MaxHash == 1
\* with_capacity is called with 0..MaxCap
MaxCap == 3
\* width of the neighbourhood bit-set B the map is instantiated with
H == 2
\* in the specification of the capacities, with_capacity is called with
\* 0..MaxReserve
MaxReserve == 20

LeftKeys == 1..MaxLeft
RightKeys == 1..MaxRight
LeftHashers == [LeftKeys -> 0..MaxHash]
RightHashers == [RightKeys -> 0..MaxHash]

----------------------------------------------------------------------------
(* Program constants.                                                      *)

DEFAULT_HASH_MAP_SIZE == 32
MAX_LOAD_FACTOR_NUMERATOR == 11
MAX_LOAD_FACTOR_DENOMINATOR == 10

----------------------------------------------------------------------------
(* Return values.  Every return value is a record of the same shape.       *)

None == [tag |-> "None", val |-> 0]
Some(x) == [tag |-> "Some", val |-> x]
Usize(n) == [tag |-> "usize", val |-> n]
Built == [tag |-> "BiMap", val |-> 0]
Panic == [tag |-> "panic", val |-> 0]
\* the (Option<R>, Option<L>) that insert returns
Tuple(old_right, old_left) == [tag |-> "tuple", val |-> 0, old_right |-> old_right, old_left |-> old_left]

\* the pairs an iteration yields, in the order it yields them
Pairs(seq) == [tag |-> "pairs", val |-> 0, pairs |-> seq]

panicked == ret.tag = "panic"

\* the consuming iteration has taken the map
moved == call.op = "into_iter"

\* the map can be operated on
usable == ~panicked /\ ~moved

----------------------------------------------------------------------------
(* Buckets and bit-sets.                                                   *)

\* a bucket without payload and with an empty neighbourhood
EmptyBucket == [data |-> <<>>, neighbourhood |-> {}]

\* Bucket::empty_vec(n): n empty buckets, indexed from 0
empty_vec(n) == [i \in 0..(n - 1) |-> EmptyBucket]

\* slice::len
Length(table) == Cardinality(DOMAIN table)

\* B::zero_at(offset): the mask with every bit set but the one at offset; an
\* offset of H or more names no bit of the set, and the mask is then full
zero_at(offset) == (0..(H - 1)) \ {offset}

\* the least element of a non-empty set of offsets: the first one that the
\* ascending iteration of a bit-set yields
First(offsets) == CHOOSE o \in offsets : \A p \in offsets : o <= p

\* hash of a key, as usize, modulo the table length
ideal_index(hasher, key, len) == hasher[key] % len

----------------------------------------------------------------------------
(* Construction and capacity.                                              *)

\* the length with_capacity(n) gives both tables
reserved(n) == (n * MAX_LOAD_FACTOR_NUMERATOR) \div MAX_LOAD_FACTOR_DENOMINATOR

\* the value capacity() returns for a table
capacity_of(table) ==
    (Length(table) \div MAX_LOAD_FACTOR_DENOMINATOR) * MAX_LOAD_FACTOR_NUMERATOR

----------------------------------------------------------------------------
(* The private routine remove.                                             *)

\* the offsets of the neighbourhood at index whose slot holds the key
Matching(key, key_data, index) ==
    LET len == Length(key_data)
    IN  {offset \in key_data[index].neighbourhood :
            LET data == key_data[(index + offset) % len].data
            IN  data # <<>> /\ data[1] = key}

\* remove reading the found pair without taking it out of its bucket
remove_found_keeps_key(index, offset, key_data, value_data, value_hasher) ==
    LET len == Length(key_data)
        key_index == (index + offset) % len
        neighbourhood == key_data[index].neighbourhood
        kd1 == [key_data EXCEPT ![index].neighbourhood =
                    neighbourhood \cap zero_at(offset)]
        value_index == kd1[key_index].data[2]
        taken == value_data[key_index].data
    IN  IF taken = <<>>
        THEN [key_data |-> kd1, value_data |-> value_data, ret |-> Panic]
        ELSE LET value == taken[1]
                 vd1 == [value_data EXCEPT ![key_index].data = <<>>]
                 ideal_value_index == ideal_index(value_hasher, value, len)
                 value_offset == (value_index + len - ideal_value_index) % len
                 vd2 == [vd1 EXCEPT ![ideal_value_index].neighbourhood =
                            @ \cap zero_at(value_offset)]
             IN  [key_data |-> kd1, value_data |-> vd2, ret |-> Some(value)]

\* the state of the tables and the result when the key is found at offset
remove_found(index, offset, key_data, value_data, value_hasher) ==
    LET len == Length(key_data)
        key_index == (index + offset) % len
        neighbourhood == key_data[index].neighbourhood
        kd1 == [key_data EXCEPT ![index].neighbourhood =
                    neighbourhood \cap zero_at(offset)]
        value_index == kd1[key_index].data[2]
        kd2 == [kd1 EXCEPT ![key_index].data = <<>>]
        taken == value_data[key_index].data
    IN  IF taken = <<>>
        THEN [key_data |-> kd2, value_data |-> value_data, ret |-> Panic]
        ELSE LET value == taken[1]
                 vd1 == [value_data EXCEPT ![key_index].data = <<>>]
                 ideal_value_index == ideal_index(value_hasher, value, len)
                 value_offset == (value_index + len - ideal_value_index) % len
                 vd2 == [vd1 EXCEPT ![ideal_value_index].neighbourhood =
                            @ \cap zero_at(value_offset)]
             IN  [key_data |-> kd2, value_data |-> vd2, ret |-> Some(value)]

\* remove(key, key_data, value_data, key_hasher, value_hasher)
remove(key, key_data, value_data, key_hasher, value_hasher) ==
    LET len == Length(key_data)
    IN  IF len = 0
        THEN [key_data |-> key_data, value_data |-> value_data, ret |-> Panic]
        ELSE LET index == ideal_index(key_hasher, key, len)
                 found == Matching(key, key_data, index)
             IN  IF found = {}
                 THEN [key_data |-> key_data, value_data |-> value_data,
                       ret |-> None]
                 ELSE remove_found(index, First(found), key_data, value_data,
                                   value_hasher)

----------------------------------------------------------------------------
(* The invariants of the data model.                                       *)

Occupied(table) == {i \in DOMAIN table : table[i].data # <<>>}

\* every occupied slot of a points at an occupied slot of b that points back
CrossLinked(a, b) ==
    \A i \in Occupied(a) :
        LET j == a[i].data[2]
        IN  j \in Occupied(b) /\ b[j].data[2] = i

Bijection == CrossLinked(left_data, right_data) /\ CrossLinked(right_data, left_data)

\* every occupied slot is within H of its key's ideal index, with its bit set
InNeighbourhood(table, hasher) ==
    \A p \in Occupied(table) :
        LET len == Length(table)
            h == ideal_index(hasher, table[p].data[1], len)
            o == (p + len - h) % len
        IN  o < H /\ o \in table[h].neighbourhood

NeighbourhoodBound ==
    InNeighbourhood(left_data, left_hasher) /\ InNeighbourhood(right_data, right_hasher)

\* no key is stored in two slots of a table
Distinct(table) ==
    \A i, j \in Occupied(table) : table[i].data[1] = table[j].data[1] => i = j

Valid == Bijection /\ NeighbourhoodBound /\ Distinct(left_data) /\ Distinct(right_data)

----------------------------------------------------------------------------
(* The states a map can be in before an operation: every pair of tables    *)
(* of a length with_capacity gives that satisfies the invariants of the    *)
(* data model.                                                             *)

\* the placements of keys in a table of length len: a slot for each key, or
\* len for a key that is not stored; a stored key is within H of its ideal
\* index and no two keys share a slot
Placements(keys, hasher, len) ==
    {p \in [keys -> 0..len] :
        /\ \A k \in keys : p[k] < len =>
              (p[k] + len - ideal_index(hasher, k, len)) % len < H
        /\ \A k1, k2 \in keys : (p[k1] < len /\ p[k1] = p[k2]) => k1 = k2}

Stored(p, len) == {k \in DOMAIN p : p[k] < len}

\* the one-to-one pairings of the stored left keys with the stored right keys
Pairings(lp, rp, len) ==
    {m \in [Stored(lp, len) -> Stored(rp, len)] :
        /\ \A k1, k2 \in Stored(lp, len) : m[k1] = m[k2] => k1 = k2
        /\ \A r \in Stored(rp, len) : \E k \in Stored(lp, len) : m[k] = r}

Inverse(m, lp, rp, len) ==
    [r \in Stored(rp, len) |-> CHOOSE k \in Stored(lp, len) : m[k] = r]

\* the table that stores the keys at the slots p, key k paired with the key
\* partner[k] of the other table, which is stored at slot q[partner[k]]; the
\* bit of a stored key is set at its ideal index and no other bit is
TableOf(p, q, partner, hasher, len) ==
    [i \in 0..(len - 1) |->
        [data |-> IF \E k \in Stored(p, len) : p[k] = i
                  THEN LET k == CHOOSE k \in Stored(p, len) : p[k] = i
                       IN  <<k, q[partner[k]]>>
                  ELSE <<>>,
         neighbourhood |->
            {(p[k] + len - i) % len :
                k \in {k \in Stored(p, len) : ideal_index(hasher, k, len) = i}}]]

Init ==
    \E n \in 0..MaxCap, lh \in LeftHashers, rh \in RightHashers :
        LET len == reserved(n)
        IN  \E lp \in Placements(LeftKeys, lh, len), rp \in Placements(RightKeys, rh, len) :
            \E m \in Pairings(lp, rp, len) :
                /\ left_data = TableOf(lp, rp, m, lh, len)
                /\ right_data = TableOf(rp, lp, Inverse(m, lp, rp, len), rh, len)
                /\ left_hasher = lh
                /\ right_hasher = rh
                /\ call = [op |-> "init", left |-> 0, right |-> 0]
                /\ ret = Built

----------------------------------------------------------------------------
(* The pairing iterator.                                                   *)

\* the pairs the iterator yields from left slot i on: it walks the left table
\* slot by slot and follows the cross-index of an occupied slot into the
\* right table
RECURSIVE Walk(_, _, _)
Walk(i, left, right) ==
    IF i >= Length(left) THEN <<>>
    ELSE IF left[i].data = <<>> THEN Walk(i + 1, left, right)
    ELSE <<(<<left[i].data[1], right[left[i].data[2]].data[1]>>)>>
            \o Walk(i + 1, left, right)

\* the result of an iteration: the pairs, or a panic when the cross-index of
\* an occupied left slot names an empty right slot, which holds no key to
\* pair with
Iterate(left, right) ==
    IF \A i \in Occupied(left) : right[left[i].data[2]].data # <<>>
    THEN Pairs(Walk(0, left, right))
    ELSE Panic

----------------------------------------------------------------------------
(* The public operations.  A panic ends the program, and so does the       *)
(* consuming iteration, which takes the map.                               *)

\* with_capacity sizing the right table by dividing before it multiplies
with_capacity_right_divides_first(n) ==
    /\ usable
    /\ left_data' = empty_vec(reserved(n))
    /\ right_data' = empty_vec(
            (n \div MAX_LOAD_FACTOR_DENOMINATOR) * MAX_LOAD_FACTOR_NUMERATOR)
    /\ \E lh \in LeftHashers : left_hasher' = lh
    /\ \E rh \in RightHashers : right_hasher' = rh
    /\ call' = [op |-> "with_capacity", left |-> n, right |-> 0]
    /\ ret' = Built

\* BiMap::with_capacity(n)
with_capacity(n) ==
    /\ usable
    /\ left_data' = empty_vec(reserved(n))
    /\ right_data' = empty_vec(reserved(n))
    /\ \E lh \in LeftHashers : left_hasher' = lh
    /\ \E rh \in RightHashers : right_hasher' = rh
    /\ call' = [op |-> "with_capacity", left |-> n, right |-> 0]
    /\ ret' = Built

\* BiMap::new()
new ==
    /\ usable
    /\ left_data' = empty_vec(reserved(DEFAULT_HASH_MAP_SIZE))
    /\ right_data' = empty_vec(reserved(DEFAULT_HASH_MAP_SIZE))
    /\ \E lh \in LeftHashers : left_hasher' = lh
    /\ \E rh \in RightHashers : right_hasher' = rh
    /\ call' = [op |-> "new", left |-> 0, right |-> 0]
    /\ ret' = Built

\* BiMap::capacity(&self)
capacity ==
    /\ usable
    /\ call' = [op |-> "capacity", left |-> 0, right |-> 0]
    /\ ret' = Usize(capacity_of(left_data))
    /\ UNCHANGED <<left_data, right_data, left_hasher, right_hasher>>

\* BiMap::insert(left, right): the body is unimplemented!()
insert(left, right) ==
    /\ usable
    /\ call' = [op |-> "insert", left |-> left, right |-> right]
    /\ ret' = Panic
    /\ UNCHANGED <<left_data, right_data, left_hasher, right_hasher>>

\* BiMap::remove_left(left)
remove_left(left) ==
    /\ usable
    /\ LET r == remove(left, left_data, right_data, left_hasher, right_hasher)
       IN  /\ left_data' = r.key_data
           /\ right_data' = r.value_data
           /\ ret' = r.ret
    /\ call' = [op |-> "remove_left", left |-> left, right |-> 0]
    /\ UNCHANGED <<left_hasher, right_hasher>>

\* BiMap::remove_right(right)
remove_right(right) ==
    /\ usable
    /\ LET r == remove(right, right_data, left_data, right_hasher, left_hasher)
       IN  /\ right_data' = r.key_data
           /\ left_data' = r.value_data
           /\ ret' = r.ret
    /\ call' = [op |-> "remove_right", left |-> 0, right |-> right]
    /\ UNCHANGED <<left_hasher, right_hasher>>

\* the borrowing iteration handed the left table in place of the right one
into_iter_ref_left_twice ==
    /\ usable
    /\ call' = [op |-> "into_iter_ref", left |-> 0, right |-> 0]
    /\ ret' = Iterate(left_data, left_data)
    /\ UNCHANGED <<left_data, right_data, left_hasher, right_hasher>>

\* <&BiMap as IntoIterator>::into_iter: the borrowing iteration, run to its end
into_iter_ref ==
    /\ usable
    /\ call' = [op |-> "into_iter_ref", left |-> 0, right |-> 0]
    /\ ret' = Iterate(left_data, right_data)
    /\ UNCHANGED <<left_data, right_data, left_hasher, right_hasher>>

\* <BiMap as IntoIterator>::into_iter: the consuming iteration, run to its end
into_iter ==
    /\ usable
    /\ call' = [op |-> "into_iter", left |-> 0, right |-> 0]
    /\ ret' = Iterate(left_data, right_data)
    /\ UNCHANGED <<left_data, right_data, left_hasher, right_hasher>>

Next ==
    \/ new
    \/ \E n \in 0..MaxCap : with_capacity(n)
    \/ capacity
    \/ \E l \in LeftKeys, r \in RightKeys : insert(l, r)
    \/ \E l \in LeftKeys : remove_left(l)
    \/ \E r \in RightKeys : remove_right(r)
    \/ into_iter_ref
    \/ into_iter

Spec == Init /\ [][Next]_vars

----------------------------------------------------------------------------
(* The capacities: maps without pairs, built with capacities up to         *)
(* MaxReserve, and the operations with_capacity and capacity on them.      *)

InitCapacity ==
    \E n \in 0..MaxReserve, lh \in LeftHashers, rh \in RightHashers :
        /\ left_data = empty_vec(reserved(n))
        /\ right_data = empty_vec(reserved(n))
        /\ left_hasher = lh
        /\ right_hasher = rh
        /\ call = [op |-> "with_capacity", left |-> n, right |-> 0]
        /\ ret = Built

NextCapacity ==
    \/ \E n \in 0..MaxReserve : with_capacity(n)
    \/ capacity

SpecCapacity == InitCapacity /\ [][NextCapacity]_vars

----------------------------------------------------------------------------
(* Vocabulary of the properties.                                           *)

\* the slots of a table that hold the key, found without the neighbourhoods
SlotsOf(key, table) == {i \in Occupied(table) : table[i].data[1] = key}

\* the key of value_data that the key of key_data is paired with: the one
\* stored at its cross-index
PartnerOf(key, key_data, value_data) ==
    LET i == CHOOSE i \in SlotsOf(key, key_data) : TRUE
    IN  value_data[key_data[i].data[2]].data[1]

\* the number of pairs the map holds
Live(table) == Cardinality(Occupied(table))

Constructed == call.op \in {"new", "with_capacity"}

----------------------------------------------------------------------------
(* Properties.                                                             *)

\* C1: on a map that satisfies the invariants and stores the pair (l, r),
\* remove_left(l) returns Some(r) and remove_right(r) returns Some(l): the
\* key stored in the value table at the removed key's cross-index.
C1_RemoveReturnsPartner ==
    [][/\ (Valid /\ call'.op = "remove_left" /\ SlotsOf(call'.left, left_data) # {})
            => ret' = Some(PartnerOf(call'.left, left_data, right_data))
       /\ (Valid /\ call'.op = "remove_right" /\ SlotsOf(call'.right, right_data) # {})
            => ret' = Some(PartnerOf(call'.right, right_data, left_data))]_vars

\* C2: after every operation that returns, every occupied left slot i with
\* cross-index j has right slot j occupied with cross-index i, and every
\* occupied right slot j with cross-index i has left slot i occupied with
\* cross-index j.
C2_BijectionInvariant == ~panicked => Bijection

\* C3: insert(l, r) returns, and in the state it leaves remove_left(l)
\* returns Some(r) and remove_right(r) returns Some(l).
C3_InsertRoundTrip ==
    call.op = "insert" =>
        /\ ~panicked
        /\ remove(call.left, left_data, right_data, left_hasher, right_hasher).ret
                = Some(call.right)
        /\ remove(call.right, right_data, left_data, right_hasher, left_hasher).ret
                = Some(call.left)

\* C4: on a map in which l is paired with r1 (the state insert(l, r1)
\* leaves), insert(l, r2) with r2 # r1 and r2 not stored returns
\* (Some(r1), None); afterwards remove_right(r1) returns None and
\* remove_left(l) returns Some(r2).
C4_OverwriteOrphans ==
    [][(/\ Valid
        /\ call'.op = "insert"
        /\ SlotsOf(call'.left, left_data) # {}
        /\ PartnerOf(call'.left, left_data, right_data) # call'.right
        /\ SlotsOf(call'.right, right_data) = {})
       => /\ ret' = Tuple(Some(PartnerOf(call'.left, left_data, right_data)), None)
          /\ remove(PartnerOf(call'.left, left_data, right_data), right_data',
                    left_data', right_hasher', left_hasher').ret = None
          /\ remove(call'.left, left_data', right_data', left_hasher',
                    right_hasher').ret = Some(call'.right)]_vars

\* C5: capacity() called on the map that with_capacity(k) built returns at
\* least k.
C5_CapacityLowerBound ==
    [][(call.op = "with_capacity" /\ call'.op = "capacity")
        => (ret'.tag = "usize" /\ ret'.val >= call.left)]_vars

\* C6: remove_left(q) and remove_right(q) called on the map that new() or
\* with_capacity(n) built return None.
C6_EmptyMapQueries ==
    [][(Constructed /\ call'.op \in {"remove_left", "remove_right"})
        => ret' = None]_vars

\* C7: remove_left / remove_right of a key that is stored in no slot of the
\* key table returns None and leaves both tables as they were.
C7_RemoveAbsentIsNoOp ==
    [][/\ (call'.op = "remove_left" /\ SlotsOf(call'.left, left_data) = {})
            => (ret' = None /\ left_data' = left_data /\ right_data' = right_data)
       /\ (call'.op = "remove_right" /\ SlotsOf(call'.right, right_data) = {})
            => (ret' = None /\ left_data' = left_data /\ right_data' = right_data)]_vars

\* C8: every public operation returns normally: no operation panics.
C8_Totality == ~panicked

\* C9: insert of a pair of new keys into a map that satisfies the invariants
\* and already holds capacity() pairs or more returns (None, None); the map
\* then holds one pair more, satisfies the bijection invariant and reports a
\* capacity() of at least the number of pairs it holds.
C9_SaturationResizes ==
    [][(/\ Valid
        /\ call'.op = "insert"
        /\ SlotsOf(call'.left, left_data) = {}
        /\ SlotsOf(call'.right, right_data) = {}
        /\ Live(left_data) >= capacity_of(left_data))
       => /\ ret' = Tuple(None, None)
          /\ Bijection'
          /\ Live(left_data') = Live(left_data) + 1
          /\ capacity_of(left_data') >= Live(left_data')]_vars

\* C10: after every operation that returns, every occupied slot p of either
\* table is at circular distance (p - h) mod capacity < H from the ideal
\* index h of its key and the bit of that distance is set in the
\* neighbourhood of the bucket at h.
C10_NeighbourhoodBoundInvariant == ~panicked => NeighbourhoodBound

\* the pairs of the map: the key of every occupied left slot with the key
\* stored in the right table at the slot's cross-index
PairsOf(left, right) ==
    {<<left[i].data[1], right[left[i].data[2]].data[1]>> : i \in Occupied(left)}

Iterated == call.op \in {"into_iter_ref", "into_iter"}

C12_CapacityWithinSlots ==
    call.op = "capacity" =>
        (ret.val <= Length(left_data) /\ ret.val <= Length(right_data))

\* C13: in every state the left table and the right table have the same
\* length.
C13_TablesSameLength == Length(left_data) = Length(right_data)

\* a remove has taken a pair out of a map and another pair is left in it
C13_Witness ==
    /\ call.op \in {"remove_left", "remove_right"}
    /\ ret.tag = "Some"
    /\ Live(left_data) > 0
    /\ Length(right_data) > 1

\* C14: capacity() returns the table length times 11, divided by 10
\* afterwards: floor(reserved * 11 / 10).
C14_CapacityFormula ==
    call.op = "capacity" =>
        ret.val = (Length(left_data) * MAX_LOAD_FACTOR_NUMERATOR)
                    \div MAX_LOAD_FACTOR_DENOMINATOR

\* C15: when remove_left(l) returns Some(r) on a map that satisfies the
\* invariants, l is afterwards in no occupied left slot and r in no occupied
\* right slot, a second remove_left(l) returns None and remove_right(r)
\* returns None; the same holds of remove_right with the sides exchanged.
C15_RemoveCompleteIdempotent ==
    [][/\ (Valid /\ usable /\ call'.op = "remove_left" /\ ret'.tag = "Some")
            => /\ SlotsOf(call'.left, left_data') = {}
               /\ SlotsOf(ret'.val, right_data') = {}
               /\ remove(call'.left, left_data', right_data', left_hasher',
                         right_hasher').ret = None
               /\ remove(ret'.val, right_data', left_data', right_hasher',
                         left_hasher').ret = None
       /\ (Valid /\ usable /\ call'.op = "remove_right" /\ ret'.tag = "Some")
            => /\ SlotsOf(call'.right, right_data') = {}
               /\ SlotsOf(ret'.val, left_data') = {}
               /\ remove(call'.right, right_data', left_data', right_hasher',
                         left_hasher').ret = None
               /\ remove(ret'.val, left_data', right_data', left_hasher',
                         right_hasher').ret = None]_vars

\* remove_left has returned a key, and neither the removed key nor the
\* returned key is stored any more, while another key is
C15_Witness ==
    /\ call.op = "remove_left"
    /\ ret.tag = "Some"
    /\ SlotsOf(call.left, left_data) = {}
    /\ SlotsOf(ret.val, right_data) = {}
    /\ Live(left_data) = 1

\* the payloads of a table, slot by slot
Payloads(table) == [i \in DOMAIN table |-> table[i].data]

\* the payloads of a table once the key is taken out of its slot
Without(key, table) ==
    [i \in DOMAIN table |-> IF i \in SlotsOf(key, table) THEN <<>> ELSE table[i].data]

\* C16: a remove_left / remove_right that returns a key on a map that
\* satisfies the invariants takes one pair out: each table has one occupied
\* slot fewer, only the slot of the removed key and the slot at its
\* cross-index in the other table change their payload, and every other pair
\* (l, r) is still returned by remove_left(l) and remove_right(r).
C16_RemoveTakesOnePair ==
    [][/\ (Valid /\ usable /\ call'.op = "remove_left" /\ ret'.tag = "Some")
            => /\ Live(left_data') = Live(left_data) - 1
               /\ Live(right_data') = Live(right_data) - 1
               /\ Payloads(left_data') = Without(call'.left, left_data)
               /\ Payloads(right_data')
                    = Without(PartnerOf(call'.left, left_data, right_data), right_data)
               /\ \A pr \in PairsOf(left_data', right_data') :
                    /\ remove(pr[1], left_data', right_data', left_hasher',
                              right_hasher').ret = Some(pr[2])
                    /\ remove(pr[2], right_data', left_data', right_hasher',
                              left_hasher').ret = Some(pr[1])
       /\ (Valid /\ usable /\ call'.op = "remove_right" /\ ret'.tag = "Some")
            => /\ Live(left_data') = Live(left_data) - 1
               /\ Live(right_data') = Live(right_data) - 1
               /\ Payloads(right_data') = Without(call'.right, right_data)
               /\ Payloads(left_data')
                    = Without(PartnerOf(call'.right, right_data, left_data), left_data)
               /\ \A pr \in PairsOf(left_data', right_data') :
                    /\ remove(pr[1], left_data', right_data', left_hasher',
                              right_hasher').ret = Some(pr[2])
                    /\ remove(pr[2], right_data', left_data', right_hasher',
                              left_hasher').ret = Some(pr[1])]_vars

\* bit o of the neighbourhood at h is set only if the slot (h + o) mod len is
\* occupied by a key whose ideal index is h
NoStale(table, hasher) ==
    \A h \in DOMAIN table : \A o \in table[h].neighbourhood :
        LET p == (h + o) % Length(table)
        IN  /\ table[p].data # <<>>
            /\ ideal_index(hasher, table[p].data[1], Length(table)) = h

NoStaleBits == NoStale(left_data, left_hasher) /\ NoStale(right_data, right_hasher)

\* the neighbourhoods of a table, bucket by bucket
Neighbourhoods(table) == [h \in DOMAIN table |-> table[h].neighbourhood]

\* the neighbourhoods of a table once the bit of the key is cleared at the
\* key's ideal index
Cleared(key, table, hasher) ==
    LET len == Length(table)
        home == ideal_index(hasher, key, len)
        p == CHOOSE p \in SlotsOf(key, table) : TRUE
    IN  [h \in DOMAIN table |->
            IF h = home THEN table[h].neighbourhood \ {(p + len - home) % len}
            ELSE table[h].neighbourhood]

\* C17: on a map that satisfies the invariants and has no stale
\* neighbourhood bit, a remove_left / remove_right that returns leaves no
\* stale bit; one that returns a key clears the bit of the removed key at its
\* ideal index in the key table, the bit of the returned key at its ideal
\* index in the value table, and no other bit.
C17_NoStaleBits ==
    [][/\ (Valid /\ NoStaleBits /\ usable
            /\ call'.op \in {"remove_left", "remove_right"} /\ ~panicked')
            => NoStaleBits'
       /\ (Valid /\ NoStaleBits /\ usable /\ call'.op = "remove_left"
            /\ ret'.tag = "Some")
            => /\ Neighbourhoods(left_data')
                    = Cleared(call'.left, left_data, left_hasher)
               /\ Neighbourhoods(right_data')
                    = Cleared(ret'.val, right_data, right_hasher)
       /\ (Valid /\ NoStaleBits /\ usable /\ call'.op = "remove_right"
            /\ ret'.tag = "Some")
            => /\ Neighbourhoods(right_data')
                    = Cleared(call'.right, right_data, right_hasher)
               /\ Neighbourhoods(left_data')
                    = Cleared(ret'.val, left_data, left_hasher)]_vars

====
